---- MODULE Spec2Model ----
(***************************************************************************)
(* Model of the snarc crate: the Arc-based tracked pointer of src/lib.rs   *)
(* (Snarc / Weak over Arc<Inner>, lineage Map behind a Mutex), the         *)
(* raw-pointer Holder engine of src/main.rs (Strong / Weak over a leaked   *)
(* Holder, MetaData behind a Mutex) and the Origin chains of               *)
(* src/tracing.rs.  Several shared values, several threads.  Every atomic  *)
(* step of the code (an Arc counter operation, a lock acquisition, a       *)
(* critical section up to its unlock) is one step here.                    *)
(***************************************************************************)
EXTENDS Integers, Sequences, FiniteSets, TLC

\* ------------------------------------------------------------------ bounds
NThreads == 2
MaxHandles == 3
NHolders == 2
MaxLinks == 3

Threads == 1..NThreads
Slots == 1..MaxHandles
Holders == 1..NHolders

\* Weak.id = None  (lib.rs:111)
NoId == -1

\* ------------------------------------------------------------ tracing.rs
\* Site: SourceFile { file, line }, Unknown, Annotated(String)
SiteSourceFile(file, line) ==
    [kind |-> "SourceFile", file |-> file, line |-> line, text |-> ""]

SiteUnknown == [kind |-> "Unknown", file |-> "", line |-> 0, text |-> ""]

SiteAnnotated(s) == [kind |-> "Annotated", file |-> "", line |-> 0, text |-> s]

\* The call sites the modelled program passes: the plain methods (new, clone,
\* downgrade, upgrade) pass Site::Unknown, the *_at_line ones a file and line.
Sites == {SiteUnknown, SiteSourceFile("a.rs", 7)}

VARIABLES
    prog,          \* which crate target runs: "lib" (src/lib.rs) or "bin" (src/main.rs)
    fmt,           \* an Origin handed to fmt::Display and the text written so far
    created,       \* per holder: has the shared value been constructed yet
    \* ---- src/lib.rs: Arc<Inner<T>>, one per value ----
    arc_strong,    \* ArcInner.strong
    arc_weak,      \* ArcInner.weak (includes the implicit weak owned by the strongs)
    inner,         \* "none" | "alive" | "dropped" (Inner destroyed in place) | "freed"
    strongs,       \* Map.strongs : Uid -> Origin
    weaks,         \* Map.weaks   : Uid -> Origin
    next_id,       \* Map.next_id
    map_lock,      \* Inner.map mutex: 0 = free, else the owning thread
    map_poisoned,  \* Inner.map mutex poison flag
    \* ---- src/main.rs: Holder<T>, one per value ----
    holder,        \* "none" | "allocated"   (Box::leak; nothing frees it)
    data,          \* Holder.data : "some" | "none"
    strong_refs,   \* MetaData.strong_refs : Vec<usize>
    weak_refs,     \* MetaData.weak_refs : Vec<usize>
    id_counter,    \* MetaData.id_counter
    meta_lock,     \* Holder.meta mutex
    meta_poisoned, \* Holder.meta poison flag
    \* ---- the program around them ----
    handles,       \* the Snarc/Weak (lib) or Strong/Weak (bin) objects ever made
    held,          \* the weak handles a value keeps inside itself (dropped by T's destructor)
    pc,            \* per thread: where it is inside an operation
    src,           \* per thread: the handle the running operation works on (&self)
    new,           \* per thread: the slot of the handle the operation is producing
    out,           \* per thread: the result a call is about to hand back
    panic,         \* "none" or the message of the first panic
    value_drops    \* per holder: how many times T's destructor has run

envvars == <<prog, fmt>>
arcvars == <<arc_strong, arc_weak, inner>>
mapvars == <<strongs, weaks, next_id>>
libvars == <<arcvars, mapvars, map_lock, map_poisoned>>
binvars == <<holder, data, strong_refs, weak_refs, id_counter, meta_lock, meta_poisoned>>
vars == <<envvars, created, libvars, binvars, handles, held, pc, src, new, out, panic,
          value_drops>>

\* An Origin is the chain of its links, own link first; the parent Origin of a
\* link is the rest of the chain (Box<Origin> inside OriginKind).
Link(kind, id, site) == [kind |-> kind, id |-> id, site |-> site]

OriginNew(id, site) == <<Link("New", id, site)>>

OriginClonedParentId(parent, id, site) == <<Link("Cloned", Head(parent).id, site)>> \o parent

OriginClonedNoParent(parent, id, site) == <<Link("Cloned", id, site)>>

OriginCloned(parent, id, site) == <<Link("Cloned", id, site)>> \o parent

OriginUpgraded(parent, id, site) == <<Link("Upgraded", id, site)>> \o parent

OriginDowngraded(parent, id, site) == <<Link("Downgraded", id, site)>> \o parent

\* ------------------------------------------------------------ HashMap
EmptyMap == [k \in {} |-> <<>>]

MapInsert(m, k, v) == [x \in (DOMAIN m) \cup {k} |-> IF x = k THEN v ELSE m[x]]

MapRemoveNothing(m, k) == m

MapRemove(m, k) == [x \in (DOMAIN m) \ {k} |-> m[x]]

\* ------------------------------------------------------------ handles
\* `from` is the slot of the handle the operation that made this one was called
\* on (0 for new): the derivation the Origin chain is meant to record.
NoHandle ==
    [kind |-> "none", id |-> NoId, st |-> "unused", origin |-> <<>>, holder |-> 0,
     from |-> 0]

FreeSlots == {h \in Slots : handles[h].st = "unused" /\ \A t \in Threads : new[t] # h}

NextSlot == CHOOSE h \in FreeSlots : \A g \in FreeSlots : h <= g

\* A handle some thread may start an operation on: it exists, its destructor has
\* not started, the operation producing it has returned it, and it has not been
\* moved into the value.
Usable(h) ==
    /\ handles[h].st = "live"
    /\ h \notin held
    /\ \A t \in Threads : new[t] # h

\* The borrow rules: a handle is moved (into drop, into the value) only while
\* nothing borrows it.
Borrowed(h) == \E t \in Threads : src[t] = h

Idle(t) == pc[t] = "idle" /\ panic = "none"

\* What a call is about to hand back: the (Vec<Origin>, Vec<Origin>) of
\* family(), the Origin of origin(); NoOut while no call holds one.
NoOut == [strong |-> {}, weak |-> {}, origin |-> <<>>]

NoFmt == [origin |-> <<>>, text |-> <<>>, done |-> FALSE]

\* Values are created in the order of the holder numbers.
NextHolder == CHOOSE k \in Holders : ~created[k] /\ \A j \in 1..(k - 1) : created[j]

Init ==
    /\ prog \in {"lib", "bin"}
    /\ fmt = NoFmt
    /\ created = [k \in Holders |-> FALSE]
    /\ arc_strong = [k \in Holders |-> 0]
    /\ arc_weak = [k \in Holders |-> 0]
    /\ inner = [k \in Holders |-> "none"]
    /\ strongs = [k \in Holders |-> EmptyMap]
    /\ weaks = [k \in Holders |-> EmptyMap]
    /\ next_id = [k \in Holders |-> 0]
    /\ map_lock = [k \in Holders |-> 0]
    /\ map_poisoned = [k \in Holders |-> FALSE]
    /\ holder = [k \in Holders |-> "none"]
    /\ data = [k \in Holders |-> "none"]
    /\ strong_refs = [k \in Holders |-> <<>>]
    /\ weak_refs = [k \in Holders |-> <<>>]
    /\ id_counter = [k \in Holders |-> 0]
    /\ meta_lock = [k \in Holders |-> 0]
    /\ meta_poisoned = [k \in Holders |-> FALSE]
    /\ handles = [h \in Slots |-> NoHandle]
    /\ held = {}
    /\ pc = [t \in Threads |-> "idle"]
    /\ src = [t \in Threads |-> 0]
    /\ new = [t \in Threads |-> 0]
    /\ out = [t \in Threads |-> NoOut]
    /\ panic = "none"
    /\ value_drops = [k \in Holders |-> 0]

\* =========================================================== src/lib.rs

StrongHandle(k, id, from) ==
    [kind |-> "strong", id |-> id, st |-> "live", origin |-> <<>>, holder |-> k,
     from |-> from]

WeakHandle(k, id, from) ==
    [kind |-> "weak", id |-> id, st |-> "live", origin |-> <<>>, holder |-> k,
     from |-> from]

\* The holder a handle points to, and the one the running operation works on.
HolderOf(h) == handles[h].holder

Cur(t) == handles[src[t]].holder

\* The weak handles the value of holder k keeps inside itself.
HeldBy(k) == {h \in held : handles[h].holder = k}

\* std::sync::Weak::upgrade as lib.rs uses it: it succeeds iff the strong count
\* is not zero.
ArcUpgradeNever(k) == FALSE

ArcUpgradeAlways(k) == TRUE

ArcUpgradeOk(k) == arc_strong[k] > 0

\* The release of the last weak reference (the implicit one included) is the
\* one that frees the allocation: n is the count it finds.
LastWeakAlways(n) == TRUE

LastWeak(n) == n = 1

\* The handles after a strong reference of holder k is released: if it is the
\* last one, T's destructor runs and drops the Weak handles the value holds.
\* Weak::drop finds the upgrade failing there and touches no map.
HandlesAfterArcDrop(k) ==
    IF arc_strong[k] = 1
      THEN [h \in Slots |-> IF h \in HeldBy(k)
                              THEN [handles[h] EXCEPT !.st = "dropped"]
                              ELSE handles[h]]
      ELSE handles

\* Arc<Inner<T>>: dropping a strong reference.  The last one destroys Inner in
\* place (the map and the data, whose destructor releases the weak references of
\* the handles it holds) and gives up the implicit weak reference, which frees
\* the allocation unless a Weak still holds it.
ArcDropStrong(k) ==
    /\ arc_strong' = [arc_strong EXCEPT ![k] = @ - 1]
    /\ IF arc_strong[k] = 1
         THEN LET n == Cardinality(HeldBy(k)) IN
              /\ strongs' = [strongs EXCEPT ![k] = EmptyMap]
              /\ weaks' = [weaks EXCEPT ![k] = EmptyMap]
              /\ value_drops' = [value_drops EXCEPT ![k] = @ + 1]
              /\ arc_weak' = [arc_weak EXCEPT ![k] = @ - n - 1]
              /\ inner' = [inner EXCEPT ![k] = IF LastWeak(arc_weak[k] - n)
                                                 THEN "freed" ELSE "dropped"]
              /\ held' = held \ HeldBy(k)
         ELSE UNCHANGED <<strongs, weaks, value_drops, arc_weak, inner, held>>

\* std::sync::Weak: dropping a weak reference; the last one frees the allocation.
ArcDropWeak(k) ==
    /\ arc_weak' = [arc_weak EXCEPT ![k] = @ - 1]
    /\ inner' = [inner EXCEPT ![k] = IF LastWeak(arc_weak[k]) THEN "freed" ELSE @]

\* map.lock().unwrap(): taken only while free; a poisoned mutex panics.
MapLockAcquire(t, k, cs) ==
    /\ map_lock[k] = 0
    /\ IF map_poisoned[k]
         THEN /\ panic' = "poisoned lock"
              /\ pc' = [pc EXCEPT ![t] = "panicked"]
              /\ UNCHANGED map_lock
         ELSE /\ map_lock' = [map_lock EXCEPT ![k] = t]
              /\ pc' = [pc EXCEPT ![t] = cs]
              /\ UNCHANGED panic

\* A thread unwinds out of a critical section: the guard poisons and unlocks.
LibPanicInCS(t, k, msg) ==
    /\ panic' = msg
    /\ map_poisoned' = [map_poisoned EXCEPT ![k] = TRUE]
    /\ map_lock' = [map_lock EXCEPT ![k] = 0]
    /\ pc' = [pc EXCEPT ![t] = "panicked"]
    /\ UNCHANGED <<arcvars, mapvars, handles, held, src, new, out, value_drops>>

\* The call returns to an idle thread.
Return(t) ==
    /\ pc' = [pc EXCEPT ![t] = "idle"]
    /\ src' = [src EXCEPT ![t] = 0]
    /\ new' = [new EXCEPT ![t] = 0]

\* A counter shared by all values: the largest next_id there is.
SharedNextId == CHOOSE n \in {next_id[k] : k \in Holders} : \A k \in Holders : next_id[k] <= n

\* Map::new(): `next_id: 0`, a counter of the new Map alone.
MapNew_next_id == 0

\* ---- Snarc::new_at_site: a fresh Map, filled before the Arc exists.
SnarcNew(t) ==
    /\ prog = "lib" /\ Idle(t)
    /\ \E k \in Holders : ~created[k]
    /\ FreeSlots # {}
    /\ LET k == NextHolder
           id == MapNew_next_id
       IN
       /\ \E site \in Sites :
            strongs' = [strongs EXCEPT ![k] = MapInsert(EmptyMap, id, OriginNew(id, site))]
       /\ next_id' = [next_id EXCEPT ![k] = id + 1]
       /\ created' = [created EXCEPT ![k] = TRUE]
       /\ arc_strong' = [arc_strong EXCEPT ![k] = 1]
       /\ arc_weak' = [arc_weak EXCEPT ![k] = 1]
       /\ inner' = [inner EXCEPT ![k] = "alive"]
       /\ handles' = [handles EXCEPT ![NextSlot] = StrongHandle(k, id, 0)]
    /\ UNCHANGED <<envvars, weaks, map_lock, map_poisoned, binvars, held, pc, src, new,
                   out, panic, value_drops>>

\* ---- Snarc::clone_at_site
SnarcClone_Lock(t, s) ==
    /\ prog = "lib" /\ Idle(t)
    /\ Usable(s) /\ handles[s].kind = "strong"
    /\ FreeSlots # {}
    /\ MapLockAcquire(t, HolderOf(s), "clone_cs")
    /\ src' = [src EXCEPT ![t] = s]
    /\ new' = [new EXCEPT ![t] = NextSlot]
    /\ UNCHANGED <<envvars, created, arcvars, mapvars, map_poisoned, binvars, handles,
                   held, out, value_drops>>

SnarcClone_Body(t) ==
    /\ prog = "lib" /\ panic = "none"
    /\ pc[t] = "clone_cs"
    /\ LET k == Cur(t)
           id == handles[src[t]].id
           new_id == next_id[k]
       IN
       IF id \notin DOMAIN strongs[k]
         THEN LibPanicInCS(t, k, "Internal consistency error (clone)")
         ELSE \E site \in Sites :
              /\ strongs' = [strongs EXCEPT ![k] =
                    MapInsert(@, new_id, OriginCloned(strongs[k][id], new_id, site))]
              /\ next_id' = [next_id EXCEPT ![k] = @ + 1]
              /\ arc_strong' = [arc_strong EXCEPT ![k] = @ + 1]
              /\ handles' = [handles EXCEPT ![new[t]] = StrongHandle(k, new_id, src[t])]
              /\ map_lock' = [map_lock EXCEPT ![k] = 0]
              /\ Return(t)
              /\ UNCHANGED <<arc_weak, inner, weaks, map_poisoned, held, out, panic,
                             value_drops>>
    /\ UNCHANGED <<envvars, created, binvars>>

\* ---- Snarc::downgrade_at_site
SnarcDowngrade_Lock(t, s) ==
    /\ prog = "lib" /\ Idle(t)
    /\ Usable(s) /\ handles[s].kind = "strong"
    /\ FreeSlots # {}
    /\ MapLockAcquire(t, HolderOf(s), "downgrade_cs")
    /\ src' = [src EXCEPT ![t] = s]
    /\ new' = [new EXCEPT ![t] = NextSlot]
    /\ UNCHANGED <<envvars, created, arcvars, mapvars, map_poisoned, binvars, handles,
                   held, out, value_drops>>

SnarcDowngrade_Body(t) ==
    /\ prog = "lib" /\ panic = "none"
    /\ pc[t] = "downgrade_cs"
    /\ LET k == Cur(t)
           id == handles[src[t]].id
           new_id == next_id[k]
       IN
       IF id \notin DOMAIN strongs[k]
         THEN LibPanicInCS(t, k, "Internal consistency error (downgrade)")
         ELSE \E site \in Sites :
              /\ weaks' = [weaks EXCEPT ![k] =
                    MapInsert(@, new_id, OriginDowngraded(strongs[k][id], new_id, site))]
              /\ next_id' = [next_id EXCEPT ![k] = @ + 1]
              /\ arc_weak' = [arc_weak EXCEPT ![k] = @ + 1]
              /\ handles' = [handles EXCEPT ![new[t]] = WeakHandle(k, new_id, src[t])]
              /\ map_lock' = [map_lock EXCEPT ![k] = 0]
              /\ Return(t)
              /\ UNCHANGED <<arc_strong, inner, strongs, map_poisoned, held, out, panic,
                             value_drops>>
    /\ UNCHANGED <<envvars, created, binvars>>

\* ---- Weak::upgrade_at_site: `self.id?`, then Arc's upgrade, both before the lock.
WeakUpgrade_Begin(t, w) ==
    /\ prog = "lib" /\ Idle(t)
    /\ Usable(w) /\ handles[w].kind = "weak"
    /\ src' = [src EXCEPT ![t] = w]
    /\ IF handles[w].id = NoId \/ ~ArcUpgradeOk(HolderOf(w))
         THEN /\ pc' = [pc EXCEPT ![t] = "upgrade_none"]
              /\ UNCHANGED <<arc_strong, new>>
         ELSE /\ FreeSlots # {}
              /\ arc_strong' = [arc_strong EXCEPT ![HolderOf(w)] = @ + 1]
              /\ pc' = [pc EXCEPT ![t] = "upgrade_lock"]
              /\ new' = [new EXCEPT ![t] = NextSlot]
    /\ UNCHANGED <<envvars, created, arc_weak, inner, mapvars, map_lock, map_poisoned,
                   binvars, handles, held, out, panic, value_drops>>

\* upgrade_at_site hands back None.
WeakUpgrade_None(t) ==
    /\ prog = "lib" /\ panic = "none"
    /\ pc[t] = "upgrade_none"
    /\ Return(t)
    /\ UNCHANGED <<envvars, created, libvars, binvars, handles, held, out, panic,
                   value_drops>>

\* The lock of the three Weak operations, taken after the Arc upgrade.
LibCsOf(p) ==
    CASE p = "upgrade_lock" -> "upgrade_cs"
      [] p = "wclone_lock" -> "wclone_cs"
      [] p = "wdrop_lock" -> "wdrop_cs"

MapLock(t) ==
    /\ prog = "lib" /\ panic = "none"
    /\ pc[t] \in {"upgrade_lock", "wclone_lock", "wdrop_lock"}
    /\ MapLockAcquire(t, Cur(t), LibCsOf(pc[t]))
    /\ UNCHANGED <<envvars, created, arcvars, mapvars, map_poisoned, binvars, handles,
                   held, src, new, out, value_drops>>

WeakUpgrade_Body(t) ==
    /\ prog = "lib" /\ panic = "none"
    /\ pc[t] = "upgrade_cs"
    /\ LET k == Cur(t)
           id == handles[src[t]].id
           new_id == next_id[k]
       IN
       IF id \notin DOMAIN weaks[k]
         THEN LibPanicInCS(t, k, "Internal consistency error (upgrade)")
         ELSE \E site \in Sites :
              /\ strongs' = [strongs EXCEPT ![k] =
                    MapInsert(@, new_id, OriginUpgraded(weaks[k][id], new_id, site))]
              /\ next_id' = [next_id EXCEPT ![k] = @ + 1]
              /\ handles' = [handles EXCEPT ![new[t]] = StrongHandle(k, new_id, src[t])]
              /\ map_lock' = [map_lock EXCEPT ![k] = 0]
              /\ Return(t)
              /\ UNCHANGED <<arcvars, weaks, map_poisoned, held, out, panic, value_drops>>
    /\ UNCHANGED <<envvars, created, binvars>>

\* ---- Weak::clone_at_site: a temporary untracked strong reference, or a Weak
\* without id when the value is gone.
WeakClone_Begin(t, w) ==
    /\ prog = "lib" /\ Idle(t)
    /\ Usable(w) /\ handles[w].kind = "weak"
    /\ FreeSlots # {}
    /\ LET k == HolderOf(w) IN
       IF ArcUpgradeOk(k)
         THEN /\ arc_strong' = [arc_strong EXCEPT ![k] = @ + 1]
              /\ pc' = [pc EXCEPT ![t] = "wclone_lock"]
              /\ src' = [src EXCEPT ![t] = w]
              /\ new' = [new EXCEPT ![t] = NextSlot]
              /\ UNCHANGED <<arc_weak, handles>>
         ELSE /\ arc_weak' = [arc_weak EXCEPT ![k] = @ + 1]
              /\ handles' = [handles EXCEPT ![NextSlot] = WeakHandle(k, NoId, w)]
              /\ UNCHANGED <<arc_strong, pc, src, new>>
    /\ UNCHANGED <<envvars, created, inner, mapvars, map_lock, map_poisoned, binvars,
                   held, out, panic, value_drops>>

WeakClone_Body(t) ==
    /\ prog = "lib" /\ panic = "none"
    /\ pc[t] = "wclone_cs"
    /\ LET k == Cur(t)
           id == handles[src[t]].id
           new_id == next_id[k]
       IN
       IF id = NoId
         THEN LibPanicInCS(t, k, "Succesfully upgraded a weak reference, but it has no ID")
         ELSE IF id \notin DOMAIN weaks[k]
         THEN LibPanicInCS(t, k, "Internal consistency error (weak clone)")
         ELSE \E site \in Sites :
              /\ weaks' = [weaks EXCEPT ![k] =
                    MapInsert(@, new_id, OriginCloned(weaks[k][id], new_id, site))]
              /\ next_id' = [next_id EXCEPT ![k] = @ + 1]
              /\ arc_weak' = [arc_weak EXCEPT ![k] = @ + 1]
              /\ handles' = [handles EXCEPT ![new[t]] = WeakHandle(k, new_id, src[t])]
              /\ map_lock' = [map_lock EXCEPT ![k] = 0]
              /\ pc' = [pc EXCEPT ![t] = "wclone_temp"]
              /\ UNCHANGED <<arc_strong, inner, strongs, map_poisoned, held, panic,
                             value_drops, src, new, out>>
    /\ UNCHANGED <<envvars, created, binvars>>

\* The temporary strong reference of Weak::clone_at_site / Weak::drop goes out
\* of scope after the guard.
TempStrong_Drop(t) ==
    /\ prog = "lib" /\ panic = "none"
    /\ pc[t] \in {"wclone_temp", "wdrop_temp"}
    /\ ArcDropStrong(Cur(t))
    /\ handles' = HandlesAfterArcDrop(Cur(t))
    /\ IF pc[t] = "wclone_temp"
         THEN Return(t)
         ELSE /\ pc' = [pc EXCEPT ![t] = "wdrop_weak"]
              /\ UNCHANGED <<src, new>>
    /\ UNCHANGED <<envvars, created, next_id, map_lock, map_poisoned, binvars, out,
                   panic>>

\* ---- Drop for Snarc: the map entry goes under the lock, the Arc afterwards.
SnarcDrop_Lock(t, s) ==
    /\ prog = "lib" /\ Idle(t)
    /\ Usable(s) /\ handles[s].kind = "strong" /\ ~Borrowed(s)
    /\ MapLockAcquire(t, HolderOf(s), "drop_cs")
    /\ handles' = [handles EXCEPT ![s].st = "dropping"]
    /\ src' = [src EXCEPT ![t] = s]
    /\ UNCHANGED <<envvars, created, arcvars, mapvars, map_poisoned, binvars, held, new,
                   out, value_drops>>

SnarcDrop_Body(t) ==
    /\ prog = "lib" /\ panic = "none"
    /\ pc[t] = "drop_cs"
    /\ LET k == Cur(t)
           id == handles[src[t]].id
       IN
       IF id \notin DOMAIN strongs[k]
         THEN LibPanicInCS(t, k, "Internal consistency error (drop)")
         ELSE /\ strongs' = [strongs EXCEPT ![k] = MapRemove(@, id)]
              /\ map_lock' = [map_lock EXCEPT ![k] = 0]
              /\ pc' = [pc EXCEPT ![t] = "drop_arc"]
              /\ UNCHANGED <<arcvars, weaks, next_id, map_poisoned, handles, held, src,
                             new, out, panic, value_drops>>
    /\ UNCHANGED <<envvars, created, binvars>>

SnarcDrop_Arc(t) ==
    /\ prog = "lib" /\ panic = "none"
    /\ pc[t] = "drop_arc"
    /\ ArcDropStrong(Cur(t))
    /\ handles' = [HandlesAfterArcDrop(Cur(t)) EXCEPT ![src[t]].st = "dropped"]
    /\ Return(t)
    /\ UNCHANGED <<envvars, created, next_id, map_lock, map_poisoned, binvars, out,
                   panic>>

\* ---- Drop for Weak: the entry is removed only if the temporary upgrade works.
WeakDrop_Begin(t, w) ==
    /\ prog = "lib" /\ Idle(t)
    /\ Usable(w) /\ handles[w].kind = "weak" /\ ~Borrowed(w)
    /\ handles' = [handles EXCEPT ![w].st = "dropping"]
    /\ src' = [src EXCEPT ![t] = w]
    /\ IF ArcUpgradeOk(HolderOf(w))
         THEN /\ arc_strong' = [arc_strong EXCEPT ![HolderOf(w)] = @ + 1]
              /\ pc' = [pc EXCEPT ![t] = "wdrop_lock"]
         ELSE /\ pc' = [pc EXCEPT ![t] = "wdrop_weak"]
              /\ UNCHANGED arc_strong
    /\ UNCHANGED <<envvars, created, arc_weak, inner, mapvars, map_lock, map_poisoned,
                   binvars, held, new, out, panic, value_drops>>

WeakDrop_Body(t) ==
    /\ prog = "lib" /\ panic = "none"
    /\ pc[t] = "wdrop_cs"
    /\ LET k == Cur(t)
           id == handles[src[t]].id
       IN
       IF id = NoId
         THEN LibPanicInCS(t, k, "No ID on alive weak reference in drop")
         ELSE IF id \notin DOMAIN weaks[k]
         THEN LibPanicInCS(t, k, "Internal consistency error (weak drop)")
         ELSE /\ weaks' = [weaks EXCEPT ![k] = MapRemove(@, id)]
              /\ map_lock' = [map_lock EXCEPT ![k] = 0]
              /\ pc' = [pc EXCEPT ![t] = "wdrop_temp"]
              /\ UNCHANGED <<arcvars, strongs, next_id, map_poisoned, handles, held, src,
                             new, out, panic, value_drops>>
    /\ UNCHANGED <<envvars, created, binvars>>

WeakDrop_Weak(t) ==
    /\ prog = "lib" /\ panic = "none"
    /\ pc[t] = "wdrop_weak"
    /\ ArcDropWeak(Cur(t))
    /\ handles' = [handles EXCEPT ![src[t]].st = "dropped"]
    /\ Return(t)
    /\ UNCHANGED <<envvars, created, arc_strong, mapvars, map_lock, map_poisoned,
                   binvars, held, out, panic, value_drops>>

\* ---- Snarc::family: both lists are collected under the lock and handed back
\* when the guard is released.
Range(m) == {m[k] : k \in DOMAIN m}

SnarcFamily_Lock(t, s) ==
    /\ prog = "lib" /\ Idle(t)
    /\ Usable(s) /\ handles[s].kind = "strong"
    /\ MapLockAcquire(t, HolderOf(s), "family_cs")
    /\ src' = [src EXCEPT ![t] = s]
    /\ out' = [out EXCEPT ![t] =
          IF map_poisoned[HolderOf(s)] THEN NoOut
          ELSE [NoOut EXCEPT !.strong = Range(strongs[HolderOf(s)]),
                             !.weak = Range(weaks[HolderOf(s)])]]
    /\ UNCHANGED <<envvars, created, arcvars, mapvars, map_poisoned, binvars, handles,
                   held, new, value_drops>>

SnarcFamily_Return(t) ==
    /\ prog = "lib" /\ panic = "none"
    /\ pc[t] = "family_cs"
    /\ map_lock' = [map_lock EXCEPT ![Cur(t)] = 0]
    /\ out' = [out EXCEPT ![t] = NoOut]
    /\ Return(t)
    /\ UNCHANGED <<envvars, created, arcvars, mapvars, map_poisoned, binvars, handles,
                   held, panic, value_drops>>

\* ---- Snarc::origin: the handle's own entry is looked up under the lock and a
\* clone of it handed back when the guard is released.
SnarcOrigin_Lock(t, s) ==
    /\ prog = "lib" /\ Idle(t)
    /\ Usable(s) /\ handles[s].kind = "strong"
    /\ MapLockAcquire(t, HolderOf(s), "origin_cs")
    /\ src' = [src EXCEPT ![t] = s]
    /\ UNCHANGED <<envvars, created, arcvars, mapvars, map_poisoned, binvars, handles,
                   held, new, out, value_drops>>

SnarcOrigin_Body(t) ==
    /\ prog = "lib" /\ panic = "none"
    /\ pc[t] = "origin_cs"
    /\ LET k == Cur(t)
           id == handles[src[t]].id
       IN
       IF id \notin DOMAIN strongs[k]
         THEN LibPanicInCS(t, k, "Internal consisency error (origin)")
         ELSE /\ out' = [out EXCEPT ![t] = [NoOut EXCEPT !.origin = strongs[k][id]]]
              /\ map_lock' = [map_lock EXCEPT ![k] = 0]
              /\ pc' = [pc EXCEPT ![t] = "origin_ret"]
              /\ UNCHANGED <<arcvars, mapvars, map_poisoned, handles, held, src, new,
                             panic, value_drops>>
    /\ UNCHANGED <<envvars, created, binvars>>

SnarcOrigin_Return(t) ==
    /\ prog = "lib" /\ panic = "none"
    /\ pc[t] = "origin_ret"
    /\ out' = [out EXCEPT ![t] = NoOut]
    /\ Return(t)
    /\ UNCHANGED <<envvars, created, libvars, binvars, handles, held, panic, value_drops>>

\* ---- Snarc::strong_count / Snarc::weak_count: Arc's counters, read without
\* the lock.  Arc::weak_count leaves out the weak reference that all strong
\* references hold together.
Snarc_strong_count(s) == arc_strong[HolderOf(s)]

Snarc_weak_count(s) == arc_weak[HolderOf(s)] - 1

\* ---- Deref for Snarc: &self.inner.data, no lock.  Reading a destroyed Inner
\* would be undefined behaviour: any outcome.
SnarcDeref(t, s) ==
    /\ prog = "lib" /\ Idle(t)
    /\ Usable(s) /\ handles[s].kind = "strong"
    /\ IF inner[HolderOf(s)] = "alive"
         THEN UNCHANGED <<panic, pc>>
         ELSE \E o \in {"read of freed data", "crash"} :
                /\ panic' = o
                /\ pc' = [pc EXCEPT ![t] = "panicked"]
    /\ UNCHANGED <<envvars, created, libvars, binvars, handles, held, src, new, out,
                   value_drops>>

\* ---- Snarc::try_unwrap: the body is unimplemented!().  The handle was moved
\* in; the unwinding that follows the panic is not followed further.
SnarcTryUnwrap(t, s) ==
    /\ prog = "lib" /\ Idle(t)
    /\ Usable(s) /\ handles[s].kind = "strong" /\ ~Borrowed(s)
    /\ panic' = "not implemented"
    /\ pc' = [pc EXCEPT ![t] = "panicked"]
    /\ src' = [src EXCEPT ![t] = s]
    /\ UNCHANGED <<envvars, created, libvars, binvars, handles, held, new, out,
                   value_drops>>

\* ---- The value T is the caller's type.  One whose destructor drops a Weak to
\* its own holder: a thread reaches the value through a strong handle and moves a
\* weak handle of the same value into it.
ValueKeep(t, s, w) ==
    /\ Idle(t)
    /\ Usable(s) /\ handles[s].kind = "strong"
    /\ Usable(w) /\ handles[w].kind = "weak" /\ ~Borrowed(w)
    /\ HolderOf(s) = HolderOf(w)
    /\ IF prog = "lib" THEN inner[HolderOf(s)] = "alive" ELSE data[HolderOf(s)] = "some"
    /\ held' = held \cup {w}
    /\ UNCHANGED <<envvars, created, libvars, binvars, handles, pc, src, new, out, panic,
                   value_drops>>

\* ========================================================== src/main.rs

\* OriginKind::Created / OriginKind::ClonedFrom(usize, Box<Origin>) of main.rs:
\* the chain is kept in the handle itself.
BinOriginCreated(site) == <<[kind |-> "Created", from |-> NoId, site |-> site]>>

BinOriginClonedFrom(from, parent, site) ==
    <<[kind |-> "ClonedFrom", from |-> from, site |-> site]>> \o parent

\* v.iter().position(|i| i == item): index of the first equal element, 0 for None.
Position(v, item) ==
    IF \E i \in 1..Len(v) : v[i] = item
      THEN CHOOSE i \in 1..Len(v) : v[i] = item /\ \A j \in 1..(i - 1) : v[j] # item
      ELSE 0

\* Vec::remove(idx)
VecRemoveAllEqual(v, idx) == SelectSeq(v, LAMBDA x : x # v[idx])

VecRemove(v, idx) == [i \in 1..(Len(v) - 1) |-> IF i < idx THEN v[i] ELSE v[i + 1]]

\* Vec::is_empty()
IsEmptyAlways(v) == TRUE

IsEmpty(v) == v = <<>>

\* The id create_strong_ref hands out and the counter it leaves behind: the
\* counter is read and not advanced (main.rs:97).
StrongRefId(counter) == counter

CounterAfterStrongRef(counter) == counter

\* create_weak_ref: the counter is read and advanced (main.rs:107-108).
WeakRefId(counter) == counter

CounterAfterWeakRef(counter) == counter + 1

\* self.meta.lock().expect("Poisoned metadata")
MetaLockAcquire(t, k, cs) ==
    /\ meta_lock[k] = 0
    /\ IF meta_poisoned[k]
         THEN /\ panic' = "Poisoned metadata"
              /\ pc' = [pc EXCEPT ![t] = "panicked"]
              /\ UNCHANGED meta_lock
         ELSE /\ meta_lock' = [meta_lock EXCEPT ![k] = t]
              /\ pc' = [pc EXCEPT ![t] = cs]
              /\ UNCHANGED panic

BinPanicInCS(t, k, msg) ==
    /\ panic' = msg
    /\ meta_poisoned' = [meta_poisoned EXCEPT ![k] = TRUE]
    /\ meta_lock' = [meta_lock EXCEPT ![k] = 0]
    /\ pc' = [pc EXCEPT ![t] = "panicked"]
    /\ UNCHANGED <<holder, data, strong_refs, weak_refs, id_counter,
                   handles, held, src, new, out, value_drops>>

\* ---- Strong::new_with_site: Box::leak(Holder::new(data)), then
\* create_strong_ref on the holder nobody else can reach yet.
\* Holder::new: `id_counter: 0`, a counter of the new Holder alone.
HolderNew_id_counter == 0

StrongNew(t) ==
    /\ prog = "bin" /\ Idle(t)
    /\ \E k \in Holders : ~created[k]
    /\ FreeSlots # {}
    /\ LET k == NextHolder IN
       /\ created' = [created EXCEPT ![k] = TRUE]
       /\ holder' = [holder EXCEPT ![k] = "allocated"]
       /\ data' = [data EXCEPT ![k] = "some"]
       /\ strong_refs' = [strong_refs EXCEPT ![k] = <<StrongRefId(HolderNew_id_counter)>>]
       /\ weak_refs' = [weak_refs EXCEPT ![k] = <<>>]
       /\ id_counter' = [id_counter EXCEPT ![k] = CounterAfterStrongRef(HolderNew_id_counter)]
       /\ \E site \in Sites :
            handles' = [handles EXCEPT ![NextSlot] =
                [kind |-> "strong", id |-> StrongRefId(HolderNew_id_counter), st |-> "live",
                 origin |-> BinOriginCreated(site), holder |-> k, from |-> 0]]
    /\ UNCHANGED <<envvars, libvars, meta_lock, meta_poisoned, held, pc, src, new, out,
                   panic, value_drops>>

\* ---- Strong::clone_with_site -> Holder::create_strong_ref
StrongClone_Lock(t, s) ==
    /\ prog = "bin" /\ Idle(t)
    /\ Usable(s) /\ handles[s].kind = "strong"
    /\ FreeSlots # {}
    /\ MetaLockAcquire(t, HolderOf(s), "create_strong_cs")
    /\ src' = [src EXCEPT ![t] = s]
    /\ new' = [new EXCEPT ![t] = NextSlot]
    /\ UNCHANGED <<envvars, created, libvars, holder, data, strong_refs, weak_refs,
                   id_counter, meta_poisoned, handles, held, out, value_drops>>

Holder_create_strong_ref(t) ==
    /\ prog = "bin" /\ panic = "none"
    /\ pc[t] = "create_strong_cs"
    /\ LET k == Cur(t) IN
       IF data[k] # "some"
         THEN BinPanicInCS(t, k, "Cannot create strong reference, data has already been dropped")
         ELSE \E site \in Sites :
              /\ strong_refs' = [strong_refs EXCEPT ![k] = Append(@, StrongRefId(id_counter[k]))]
              /\ id_counter' = [id_counter EXCEPT ![k] = CounterAfterStrongRef(@)]
              /\ handles' = [handles EXCEPT ![new[t]] =
                    [kind |-> "strong", id |-> StrongRefId(id_counter[k]), st |-> "live",
                     origin |-> BinOriginClonedFrom(handles[src[t]].id,
                                                    handles[src[t]].origin, site),
                     holder |-> k, from |-> src[t]]]
              /\ meta_lock' = [meta_lock EXCEPT ![k] = 0]
              /\ Return(t)
              /\ UNCHANGED <<holder, data, weak_refs, meta_poisoned, held, out, panic,
                             value_drops>>
    /\ UNCHANGED <<envvars, created, libvars>>

\* ---- Holder::create_weak_ref, reached through the holder pointer of a handle.
\* main.rs has no constructor of Weak; the Weak object made of the returned id
\* carries no origin chain of its own here.
CreateWeakRef_Lock(t, h) ==
    /\ prog = "bin" /\ Idle(t)
    /\ Usable(h)
    /\ FreeSlots # {}
    /\ MetaLockAcquire(t, HolderOf(h), "create_weak_cs")
    /\ src' = [src EXCEPT ![t] = h]
    /\ new' = [new EXCEPT ![t] = NextSlot]
    /\ UNCHANGED <<envvars, created, libvars, holder, data, strong_refs, weak_refs,
                   id_counter, meta_poisoned, handles, held, out, value_drops>>

Holder_create_weak_ref(t) ==
    /\ prog = "bin" /\ panic = "none"
    /\ pc[t] = "create_weak_cs"
    /\ LET k == Cur(t) IN
       /\ weak_refs' = [weak_refs EXCEPT ![k] = Append(@, WeakRefId(id_counter[k]))]
       /\ id_counter' = [id_counter EXCEPT ![k] = CounterAfterWeakRef(@)]
       /\ handles' = [handles EXCEPT ![new[t]] =
             [kind |-> "weak", id |-> WeakRefId(id_counter[k]), st |-> "live",
              origin |-> <<>>, holder |-> k, from |-> src[t]]]
       /\ meta_lock' = [meta_lock EXCEPT ![k] = 0]
    /\ Return(t)
    /\ UNCHANGED <<envvars, created, libvars, holder, data, strong_refs, meta_poisoned,
                   held, out, panic, value_drops>>

\* ---- Drop for Strong -> Holder::drop_strong_ref
StrongDrop_Lock(t, s) ==
    /\ prog = "bin" /\ Idle(t)
    /\ Usable(s) /\ handles[s].kind = "strong" /\ ~Borrowed(s)
    /\ MetaLockAcquire(t, HolderOf(s), "drop_strong_cs")
    /\ handles' = [handles EXCEPT ![s].st = "dropping"]
    /\ src' = [src EXCEPT ![t] = s]
    /\ UNCHANGED <<envvars, created, libvars, holder, data, strong_refs, weak_refs,
                   id_counter, meta_poisoned, held, new, out, value_drops>>

\* The value is taken and dropped while `meta` is still locked.  If its
\* destructor drops a Weak of the same holder, Drop for Weak calls
\* drop_weak_ref, which locks `meta` again on the thread that holds it: std's
\* Mutex never returns from that lock().
Holder_drop_strong_ref(t) ==
    /\ prog = "bin" /\ panic = "none"
    /\ pc[t] = "drop_strong_cs"
    /\ LET k == Cur(t)
           id == handles[src[t]].id
           idx == Position(strong_refs[k], id)
           rest == VecRemove(strong_refs[k], idx)
       IN
       IF data[k] # "some"
         THEN BinPanicInCS(t, k, "Tried dropping a strong ref, even though the data has already been dropped")
         ELSE IF idx = 0
         THEN BinPanicInCS(t, k, "Tried to delete from vector, but did not find it")
         ELSE /\ strong_refs' = [strong_refs EXCEPT ![k] = rest]
              /\ IF IsEmpty(rest)
                   THEN /\ data' = [data EXCEPT ![k] = "none"]
                        /\ value_drops' = [value_drops EXCEPT ![k] = @ + 1]
                   ELSE UNCHANGED <<data, value_drops>>
              /\ IF IsEmpty(rest) /\ HeldBy(k) # {}
                   THEN /\ pc' = [pc EXCEPT ![t] = "dtor_drop_weak_lock"]
                        /\ UNCHANGED <<handles, meta_lock, src, new>>
                   ELSE /\ handles' = [handles EXCEPT ![src[t]].st = "dropped"]
                        /\ meta_lock' = [meta_lock EXCEPT ![k] = 0]
                        /\ Return(t)
              /\ UNCHANGED <<holder, weak_refs, id_counter, meta_poisoned, held, out,
                             panic>>
    /\ UNCHANGED <<envvars, created, libvars>>

\* ---- Drop for Weak -> Holder::drop_weak_ref
BinWeakDrop_Lock(t, w) ==
    /\ prog = "bin" /\ Idle(t)
    /\ Usable(w) /\ handles[w].kind = "weak" /\ ~Borrowed(w)
    /\ MetaLockAcquire(t, HolderOf(w), "drop_weak_cs")
    /\ handles' = [handles EXCEPT ![w].st = "dropping"]
    /\ src' = [src EXCEPT ![t] = w]
    /\ UNCHANGED <<envvars, created, libvars, holder, data, strong_refs, weak_refs,
                   id_counter, meta_poisoned, held, new, out, value_drops>>

Holder_drop_weak_ref(t) ==
    /\ prog = "bin" /\ panic = "none"
    /\ pc[t] = "drop_weak_cs"
    /\ LET k == Cur(t)
           id == handles[src[t]].id
           idx == Position(weak_refs[k], id)
       IN
       IF idx = 0
         THEN BinPanicInCS(t, k, "Tried to delete from vector, but did not find it")
         ELSE /\ weak_refs' = [weak_refs EXCEPT ![k] = VecRemove(@, idx)]
              /\ handles' = [handles EXCEPT ![src[t]].st = "dropped"]
              /\ meta_lock' = [meta_lock EXCEPT ![k] = 0]
              /\ Return(t)
              /\ UNCHANGED <<holder, data, strong_refs, id_counter, meta_poisoned, held,
                             out, panic, value_drops>>
    /\ UNCHANGED <<envvars, created, libvars>>

\* ---- Deref for Strong: holder.data.as_ref().expect(..), no lock.
StrongDeref(t, s) ==
    /\ prog = "bin" /\ Idle(t)
    /\ Usable(s) /\ handles[s].kind = "strong"
    /\ IF data[HolderOf(s)] = "some"
         THEN UNCHANGED <<panic, pc>>
         ELSE /\ panic' = "Encountered a missing value inside a holder while dereferencing a strong ref"
              /\ pc' = [pc EXCEPT ![t] = "panicked"]
    /\ UNCHANGED <<envvars, created, libvars, binvars, handles, held, src, new, out,
                   value_drops>>

\* ================================================ tracing.rs: fmt::Display

\* fmt::Display for Site
FmtSite(site) ==
    CASE site.kind = "SourceFile" -> site.file \o ":" \o ToString(site.line)
      [] site.kind = "Unknown" -> "?"
      [] site.kind = "Annotated" -> "\"" \o site.text \o "\""

\* The text of one write!(f, "<kind><{}>[{}]", link.id, link.site).
FmtLink(name, link) == name \o "<" \o ToString(link.id) \o ">[" \o FmtSite(link.site) \o "]"

\* The separator is written after a link whenever `cur` is still Some:
\* after every link but a New one.
SeparatorAlways(link) == <<" <- ">>

Separator(link) == IF link.kind = "New" THEN <<>> ELSE <<" <- ">>

\* fmt::Display for Origin: the loop over `cur`, as the sequence of the strings
\* its write! calls produce.  A New link ends the loop; any other link goes on
\* with its parent.
RECURSIVE FmtOrigin(_)
FmtOrigin(origin) ==
    LET link == Head(origin)
        piece == CASE link.kind = "New" -> FmtLink("new", link)
                   [] link.kind = "Cloned" -> FmtLink("clone", link)
                   [] link.kind = "Upgraded" -> FmtLink("upgrade", link)
                   [] link.kind = "Downgraded" -> FmtLink("downgrade", link)
    IN  IF link.kind = "New"
          THEN <<piece>> \o Separator(link)
          ELSE <<piece>> \o Separator(link) \o FmtOrigin(Tail(origin))

\* format!("{}", origin): the whole text is written in one call.
OriginDisplay ==
    /\ ~fmt.done
    /\ fmt.origin # <<>>
    /\ fmt' = [fmt EXCEPT !.text = FmtOrigin(fmt.origin), !.done = TRUE]
    /\ UNCHANGED <<prog, created, libvars, binvars, handles, held, pc, src, new, out,
                   panic, value_drops>>

\* The Origins handed to Display: every chain of up to MaxLinks links that ends
\* in a New link and has no other, over these ids and sites, and the chain of
\* tracing.rs's test format_origin_chain.
FmtIds == {0, 15}

FmtSites == {SiteUnknown, SiteSourceFile("foo.rs", 543), SiteAnnotated("dummy")}

FmtLinks(kinds) == {Link(k, i, s) : k \in kinds, i \in FmtIds, s \in FmtSites}

FmtChains(n) ==
    {c \in [1..n -> FmtLinks({"New", "Cloned", "Upgraded", "Downgraded"})] :
        \A i \in 1..n : (c[i].kind = "New") <=> (i = n)}

TestChain ==
    <<Link("Upgraded", 3, SiteSourceFile("final.rs", 42)),
      Link("Downgraded", 2, SiteUnknown),
      Link("Cloned", 1, SiteAnnotated("step two")),
      Link("New", 0, SiteSourceFile("orig.rs", 999))>>

FmtOrigins == UNION {FmtChains(n) : n \in 1..MaxLinks} \cup {TestChain}

FmtInit ==
    /\ prog = "lib"
    /\ \E o \in FmtOrigins : fmt = [NoFmt EXCEPT !.origin = o]
    /\ created = [k \in Holders |-> FALSE]
    /\ arc_strong = [k \in Holders |-> 0]
    /\ arc_weak = [k \in Holders |-> 0]
    /\ inner = [k \in Holders |-> "none"]
    /\ strongs = [k \in Holders |-> EmptyMap]
    /\ weaks = [k \in Holders |-> EmptyMap]
    /\ next_id = [k \in Holders |-> 0]
    /\ map_lock = [k \in Holders |-> 0]
    /\ map_poisoned = [k \in Holders |-> FALSE]
    /\ holder = [k \in Holders |-> "none"]
    /\ data = [k \in Holders |-> "none"]
    /\ strong_refs = [k \in Holders |-> <<>>]
    /\ weak_refs = [k \in Holders |-> <<>>]
    /\ id_counter = [k \in Holders |-> 0]
    /\ meta_lock = [k \in Holders |-> 0]
    /\ meta_poisoned = [k \in Holders |-> FALSE]
    /\ handles = [h \in Slots |-> NoHandle]
    /\ held = {}
    /\ pc = [t \in Threads |-> "idle"]
    /\ src = [t \in Threads |-> 0]
    /\ new = [t \in Threads |-> 0]
    /\ out = [t \in Threads |-> NoOut]
    /\ panic = "none"
    /\ value_drops = [k \in Holders |-> 0]

FmtNext == OriginDisplay

SpecFmt == FmtInit /\ [][FmtNext]_vars

Next ==
    \/ \E t \in Threads : SnarcNew(t)
    \/ \E t \in Threads, s \in Slots : SnarcClone_Lock(t, s)
    \/ \E t \in Threads : SnarcClone_Body(t)
    \/ \E t \in Threads, s \in Slots : SnarcDowngrade_Lock(t, s)
    \/ \E t \in Threads : SnarcDowngrade_Body(t)
    \/ \E t \in Threads, w \in Slots : WeakUpgrade_Begin(t, w)
    \/ \E t \in Threads : WeakUpgrade_None(t)
    \/ \E t \in Threads : MapLock(t)
    \/ \E t \in Threads : WeakUpgrade_Body(t)
    \/ \E t \in Threads, w \in Slots : WeakClone_Begin(t, w)
    \/ \E t \in Threads : WeakClone_Body(t)
    \/ \E t \in Threads : TempStrong_Drop(t)
    \/ \E t \in Threads, s \in Slots : SnarcDrop_Lock(t, s)
    \/ \E t \in Threads : SnarcDrop_Body(t)
    \/ \E t \in Threads : SnarcDrop_Arc(t)
    \/ \E t \in Threads, w \in Slots : WeakDrop_Begin(t, w)
    \/ \E t \in Threads : WeakDrop_Body(t)
    \/ \E t \in Threads : WeakDrop_Weak(t)
    \/ \E t \in Threads, s \in Slots : SnarcFamily_Lock(t, s)
    \/ \E t \in Threads : SnarcFamily_Return(t)
    \/ \E t \in Threads, s \in Slots : SnarcOrigin_Lock(t, s)
    \/ \E t \in Threads : SnarcOrigin_Body(t)
    \/ \E t \in Threads : SnarcOrigin_Return(t)
    \/ \E t \in Threads, s \in Slots : SnarcDeref(t, s)
    \/ \E t \in Threads, s, w \in Slots : ValueKeep(t, s, w)
    \/ \E t \in Threads : StrongNew(t)
    \/ \E t \in Threads, s \in Slots : StrongClone_Lock(t, s)
    \/ \E t \in Threads : Holder_create_strong_ref(t)
    \/ \E t \in Threads, h \in Slots : CreateWeakRef_Lock(t, h)
    \/ \E t \in Threads : Holder_create_weak_ref(t)
    \/ \E t \in Threads, s \in Slots : StrongDrop_Lock(t, s)
    \/ \E t \in Threads : Holder_drop_strong_ref(t)
    \/ \E t \in Threads, w \in Slots : BinWeakDrop_Lock(t, w)
    \/ \E t \in Threads : Holder_drop_weak_ref(t)
    \/ \E t \in Threads, s \in Slots : StrongDeref(t, s)

Spec == Init /\ [][Next]_vars

\* The specification with try_unwrap among the operations.
NextUnwrap ==
    \/ Next
    \/ \E t \in Threads, s \in Slots : SnarcTryUnwrap(t, s)

SpecUnwrap == Init /\ [][NextUnwrap]_vars

\* The steps that carry on the operation thread t is inside of.
Continue(t) ==
    \/ SnarcClone_Body(t) \/ SnarcDowngrade_Body(t)
    \/ WeakUpgrade_None(t) \/ MapLock(t) \/ WeakUpgrade_Body(t)
    \/ WeakClone_Body(t) \/ TempStrong_Drop(t)
    \/ SnarcDrop_Body(t) \/ SnarcDrop_Arc(t)
    \/ WeakDrop_Body(t) \/ WeakDrop_Weak(t)
    \/ SnarcFamily_Return(t) \/ SnarcOrigin_Body(t) \/ SnarcOrigin_Return(t)
    \/ Holder_create_strong_ref(t) \/ Holder_create_weak_ref(t)
    \/ Holder_drop_strong_ref(t) \/ Holder_drop_weak_ref(t)

\* Fair scheduling: a thread inside an operation is run again, and a thread
\* that waits for a lock gets it if the lock is free again and again.
FairSpec == Spec /\ \A t \in Threads : SF_vars(Continue(t))

\* ================================================================ claims

Made(h) == handles[h].st # "unused"

HandlesOf(k) == {h \in Slots : Made(h) /\ handles[h].holder = k}

ValuePresent(k) == IF prog = "lib" THEN inner[k] = "alive" ELSE data[k] = "some"

StrongSubMapEmpty(k) ==
    IF prog = "lib" THEN DOMAIN strongs[k] = {} ELSE strong_refs[k] = <<>>

WeakSubMapEmpty(k) == IF prog = "lib" THEN DOMAIN weaks[k] = {} ELSE weak_refs[k] = <<>>

HolderFreed(k) == IF prog = "lib" THEN inner[k] = "freed" ELSE holder[k] = "freed"

\* No thread is inside an operation on holder k.
AllIdle(k) == \A t \in Threads : src[t] = 0 \/ handles[src[t]].holder # k

AllHandlesDropped(k) == created[k] /\ \A h \in HandlesOf(k) : handles[h].st = "dropped"

\* Everything the program keeps for holder k.
HolderState(k) ==
    <<arc_strong[k], arc_weak[k], inner[k], strongs[k], weaks[k], next_id[k],
      map_lock[k], map_poisoned[k], holder[k], data[k], strong_refs[k], weak_refs[k],
      id_counter[k], meta_lock[k], meta_poisoned[k], value_drops[k]>>

DerefFailures == {"read of freed data", "crash",
                  "Encountered a missing value inside a holder while dereferencing a strong ref"}

\* C1: while a strong handle exists whose drop has not started, the value is
\* present, and no dereference ever met an empty or destroyed value cell.
C1_StrongKeepsValueAlive ==
    /\ \A h \in Slots : (handles[h].kind = "strong" /\ handles[h].st = "live")
                           => ValuePresent(handles[h].holder)
    /\ panic \notin DerefFailures

\* An upgrade has returned a strong handle while another strong handle is in
\* the middle of its drop (map entry gone, Arc not yet released).
C1_Witness ==
    /\ prog = "lib"
    /\ \E u \in Threads, h \in Slots :
         /\ pc[u] = "drop_arc"
         /\ Usable(h) /\ handles[h].kind = "strong"
         /\ handles[h].holder = Cur(u)
         /\ handles[h].id \in DOMAIN strongs[Cur(u)]
         /\ strongs[Cur(u)][handles[h].id][1].kind = "Upgraded"

\* C2: at every step the value is present iff the strong sub-map is non-empty.
C2_ValueIffStrongSubMap ==
    \A k \in Holders : created[k] => (ValuePresent(k) <=> ~StrongSubMapEmpty(k))

\* C3: an upgrade that holds the lock on its way to returning a strong handle
\* sees a non-empty strong sub-map, and one that returns empty sees an empty one.
C3_UpgradeIffStrongSubMap ==
    \A t \in Threads :
        /\ pc[t] = "upgrade_cs" => DOMAIN strongs[Cur(t)] # {}
        /\ pc[t] = "upgrade_none" => DOMAIN strongs[Cur(t)] = {}

\* C4: in a run of clones and strong drops only, the value is destroyed exactly
\* once, by the drop that completes last and not before, and nothing panics.
NoWeakEver(k) == \A h \in HandlesOf(k) : handles[h].kind # "weak"

C4_DestroyedOnceByLastDrop ==
    \A k \in Holders :
        /\ value_drops[k] <= 1
        /\ (created[k] /\ NoWeakEver(k)) =>
              /\ (value_drops[k] = 1) <=> AllHandlesDropped(k)
              /\ ValuePresent(k) <=> ~AllHandlesDropped(k)
              /\ panic = "none"

\* Two clones were taken and all three strong handles are dropped.
C4_Witness ==
    /\ \A h \in Slots : /\ handles[h].kind = "strong" /\ handles[h].st = "dropped"
                        /\ handles[h].holder = 1
    /\ value_drops[1] = 1

\* C5: the holder is freed only when no handle is left and both id sets are
\* empty, and nothing touches it once it is freed (so it is not freed twice).
C5_HolderReclaimedOnce ==
    /\ [](\A k \in Holders : HolderFreed(k) =>
            /\ AllHandlesDropped(k) /\ AllIdle(k)
            /\ StrongSubMapEmpty(k) /\ WeakSubMapEmpty(k)
            /\ arc_strong[k] = 0 /\ arc_weak[k] = 0)
    /\ [][\A k \in Holders : HolderFreed(k) => HolderState(k)' = HolderState(k)]_vars

\* The holder was freed after a strong and a weak handle had existed.
C5_Witness ==
    \E k \in Holders : HolderFreed(k) /\ \E h \in HandlesOf(k) : handles[h].kind = "weak"

\* C6: once every handle is dropped the holder is reclaimed.
C6_ReclaimedAfterLastDrop ==
    \A k \in Holders : (AllHandlesDropped(k) /\ AllIdle(k)) => HolderFreed(k)

\* C7: no two handles of a value, alive or not, were ever given the same id.
C7_IdsNeverReused ==
    \A g, h \in Slots :
        (/\ g # h /\ Made(g) /\ Made(h)
         /\ handles[g].holder = handles[h].holder
         /\ handles[g].id # NoId /\ handles[h].id # NoId)
           => handles[g].id # handles[h].id

\* C8: no panic of any kind and no poisoned lock is ever reached.
C8_NoInternalFailure ==
    /\ panic = "none"
    /\ \A k \in Holders : ~map_poisoned[k] /\ ~meta_poisoned[k]

\* A weak handle without id (cloned from a dead weak handle) has been dropped.
C8_Witness ==
    /\ panic = "none"
    /\ \E h \in Slots :
         handles[h].kind = "weak" /\ handles[h].id = NoId /\ handles[h].st = "dropped"

\* C9: the two lists family() holds under the lock have as many entries as there
\* are strong and weak handles registered at that instant: made, and not yet
\* past the critical section of their drop.
AliveStrong(k) ==
    {h \in HandlesOf(k) : handles[h].kind = "strong" /\ handles[h].st = "live"}

AliveWeak(k) ==
    {h \in HandlesOf(k) :
        /\ handles[h].kind = "weak"
        /\ \/ handles[h].st = "live"
           \/ /\ handles[h].st = "dropping"
              /\ \E u \in Threads : src[u] = h /\ pc[u] = "wdrop_lock"}

C9_FamilySizes ==
    \A t \in Threads : pc[t] = "family_cs" =>
        /\ Cardinality(out[t].strong) = Cardinality(AliveStrong(Cur(t)))
        /\ Cardinality(out[t].weak) = Cardinality(AliveWeak(Cur(t)))

\* family() holds the lock while a weak drop waits for it and a strong handle
\* is past its own removal.
C9_Witness ==
    \E t, u \in Threads :
        /\ pc[t] = "family_cs" /\ pc[u] = "wdrop_lock" /\ Cur(t) = Cur(u)
        /\ Cardinality(out[t].weak) = 1
        /\ \E h \in HandlesOf(Cur(t)) :
             handles[h].kind = "strong" /\ handles[h].st = "dropped"

\* C10: once the strong id set is empty it stays empty.
C10_StrongSetStaysEmpty ==
    [][\A k \in Holders :
         (created[k] /\ StrongSubMapEmpty(k)) => StrongSubMapEmpty(k)']_vars

\* ---------------------------------------------------------------- C11..C20

\* The ids the weak sub-map of holder k holds.
WeakSubMapIds(k) == IF prog = "lib" THEN DOMAIN weaks[k] ELSE Range(weak_refs[k])

StrongSubMapIds(k) == IF prog = "lib" THEN DOMAIN strongs[k] ELSE Range(strong_refs[k])

LiveWeak(k) == {h \in HandlesOf(k) : handles[h].kind = "weak" /\ handles[h].st = "live"}

LiveStrong(k) == {h \in HandlesOf(k) : handles[h].kind = "strong" /\ handles[h].st = "live"}

StrongAllDropped(k) ==
    \A h \in HandlesOf(k) : handles[h].kind = "strong" => handles[h].st = "dropped"

\* C11: once every strong handle of a holder is dropped and no operation is
\* running on it, the weak sub-map holds exactly the ids of the weak handles
\* that are alive.
C11_WeakBookkeepingSurvives ==
    \A k \in Holders :
        (created[k] /\ StrongAllDropped(k) /\ AllIdle(k) /\ panic = "none")
           => WeakSubMapIds(k) = {handles[h].id : h \in LiveWeak(k)}

\* The Origin the program has on record for handle h: the entry under its id in
\* the sub-map of its kind (lib.rs), the chain inside the handle (main.rs);
\* the empty chain if there is none.
RecordedOrigin(h) ==
    LET k == handles[h].holder
        id == handles[h].id
        m == IF handles[h].kind = "strong" THEN strongs[k] ELSE weaks[k]
    IN IF prog = "bin" THEN handles[h].origin
       ELSE IF id \in DOMAIN m THEN m[id] ELSE <<>>

\* The OriginKind that names the operation making a handle of kind `to` out of
\* a handle of kind `of`.
OpKind(of, to) ==
    CASE of = "strong" /\ to = "strong" -> "Cloned"
      [] of = "strong" /\ to = "weak" -> "Downgraded"
      [] of = "weak" /\ to = "strong" -> "Upgraded"
      [] of = "weak" /\ to = "weak" -> "Cloned"

MapKeys(k) == DOMAIN strongs[k] \cup DOMAIN weaks[k]

MapKeysAfter(k) == DOMAIN strongs'[k] \cup DOMAIN weaks'[k]

\* The step makes handle h out of another handle.
Derives(h) == handles[h].st = "unused" /\ handles'[h].st = "live" /\ handles'[h].from # 0

\* C12: every step of lib.rs that makes a handle out of another one inserts
\* exactly one new Origin: under the id of the new handle, in the sub-map of
\* its kind, with a first link that names the operation and carries that id,
\* followed by the Origin recorded for the source handle before the step.
C12_EveryOpInsertsOneOrigin ==
    [][\A h \in Slots : (prog = "lib" /\ Derives(h)) =>
          LET g == handles'[h].from
              k == handles'[h].holder
              id == handles'[h].id
          IN /\ id # NoId
             /\ MapKeysAfter(k) \ MapKeys(k) = {id}
             /\ RecordedOrigin(h)' # <<>>
             /\ Head(RecordedOrigin(h)').kind = OpKind(handles[g].kind, handles'[h].kind)
             /\ Head(RecordedOrigin(h)').id = id
             /\ Tail(RecordedOrigin(h)') = RecordedOrigin(g)
             /\ RecordedOrigin(g) # <<>>]_vars

\* The handle n derivation steps back from h (h itself for n = 0), slot 0
\* beyond the original handle.
RECURSIVE Ancestor(_, _)
Ancestor(h, n) ==
    IF n = 0 \/ h = 0 THEN h ELSE Ancestor(handles[h].from, n - 1)

\* The number of clone / downgrade / upgrade operations that lead from the
\* original handle of the value to h.
RECURSIVE Depth(_)
Depth(h) == IF handles[h].from = 0 THEN 0 ELSE 1 + Depth(handles[h].from)

IsCreatedLink(l) == l.kind \in {"New", "Created"}

\* C13: every Origin on record for a handle ends in a New (Created) link and
\* has no other such link, has as many links before it as operations lie on
\* the handle's derivation path, and its i-th link carries the id of the
\* handle i - 1 steps back on that path.
C13_ChainEndsInNew ==
    \A h \in Slots : (Made(h) /\ RecordedOrigin(h) # <<>>) =>
        LET o == RecordedOrigin(h) IN
        /\ IsCreatedLink(o[Len(o)])
        /\ \A i \in 1..(Len(o) - 1) : ~IsCreatedLink(o[i])
        /\ Len(o) - 1 = Depth(h)
        /\ \A i \in 1..Len(o) :
              IF prog = "lib" THEN o[i].id = handles[Ancestor(h, i - 1)].id
              ELSE i < Len(o) => o[i].from = handles[Ancestor(h, i)].id

\* A strong handle upgraded from a weak handle downgraded from the original
\* handle is on record with its three links.
C13_Witness ==
    \E h \in Slots :
        /\ prog = "lib" /\ Made(h) /\ Len(RecordedOrigin(h)) = 3
        /\ RecordedOrigin(h)[1].kind = "Upgraded"
        /\ RecordedOrigin(h)[2].kind = "Downgraded"
        /\ RecordedOrigin(h)[3].kind = "New"

\* What the claim expects to read for the parts of a segment, written out as
\* literal text.
ExpectedKind(kind) ==
    CASE kind = "New" -> "new"
      [] kind = "Cloned" -> "clone"
      [] kind = "Upgraded" -> "upgrade"
      [] kind = "Downgraded" -> "downgrade"

ExpectedId(id) ==
    CASE id = 0 -> "0" [] id = 1 -> "1" [] id = 2 -> "2" [] id = 3 -> "3" [] id = 15 -> "15"

ExpectedSite(site) ==
    CASE site = SiteUnknown -> "?"
      [] site = SiteSourceFile("foo.rs", 543) -> "foo.rs:543"
      [] site = SiteSourceFile("final.rs", 42) -> "final.rs:42"
      [] site = SiteSourceFile("orig.rs", 999) -> "orig.rs:999"
      [] site = SiteAnnotated("dummy") -> "\"dummy\""
      [] site = SiteAnnotated("step two") -> "\"step two\""

ExpectedSegment(link) ==
    ExpectedKind(link.kind) \o "<" \o ExpectedId(link.id) \o ">[" \o
        ExpectedSite(link.site) \o "]"

\* The pieces of a rendering put together into the one text the caller reads.
RECURSIVE Joined(_)
Joined(pieces) == IF pieces = <<>> THEN "" ELSE Head(pieces) \o Joined(Tail(pieces))

\* C14: the rendering of an Origin of n links is n segments <kind><id>[<site>],
\* the i-th for the i-th link (own link first, New link last), with " <- "
\* between consecutive segments and nothing before the first or after the last.
C14_Rendering ==
    fmt.done =>
        LET o == fmt.origin
            n == Len(fmt.origin)
        IN /\ Len(fmt.text) = 2 * n - 1
           /\ \A i \in 1..n : fmt.text[2 * i - 1] = ExpectedSegment(o[i])
           /\ \A i \in 1..(n - 1) : fmt.text[2 * i] = " <- "

\* The chain of the test format_origin_chain has been rendered to the text the
\* test expects.
C14_Witness ==
    /\ fmt.done /\ fmt.origin = TestChain
    /\ Joined(fmt.text) =
         "upgrade<3>[final.rs:42] <- downgrade<2>[?] <- clone<1>[\"step two\"] <- new<0>[orig.rs:999]"

\* C15: under fair scheduling every operation a thread has started returns
\* (the thread is idle again).
C15_EveryOperationReturns ==
    \A t \in Threads : (pc[t] # "idle") ~> (pc[t] = "idle")

\* Thread t starts Weak::upgrade_at_site in this step.
UpgradeBegins(t) == pc[t] = "idle" /\ pc'[t] \in {"upgrade_none", "upgrade_lock"}

\* The step changes nothing the program keeps for holder k, makes no handle
\* and raises no panic.
Quiet(k) == HolderState(k)' = HolderState(k) /\ handles' = handles /\ panic' = "none"

C17_TryUnwrapNeverAborts == panic # "not implemented"

\* How many entries the sub-map (lib.rs) or id vector (main.rs) of the given
\* kind of holder k has under id.
EntryCount(kind, k, id) ==
    IF prog = "lib"
      THEN IF id \in DOMAIN (IF kind = "strong" THEN strongs[k] ELSE weaks[k]) THEN 1 ELSE 0
      ELSE LET v == IF kind = "strong" THEN strong_refs[k] ELSE weak_refs[k]
           IN Cardinality({i \in 1..Len(v) : v[i] = id})

LiveOfKind(kind, k) == IF kind = "strong" THEN LiveStrong(k) ELSE LiveWeak(k)

SubMapIds(kind, k) == IF kind = "strong" THEN StrongSubMapIds(k) ELSE WeakSubMapIds(k)

\* C18: whenever no operation is running on a holder, every id in its strong
\* (weak) sub-map is the id of exactly one live strong (weak) handle, and every
\* live strong (weak) handle has exactly one entry under its id there.
C18_IdsMatchLiveHandles ==
    \A k \in Holders : (created[k] /\ AllIdle(k) /\ panic = "none") =>
        \A kind \in {"strong", "weak"} :
            /\ \A id \in SubMapIds(kind, k) :
                  Cardinality({h \in LiveOfKind(kind, k) : handles[h].id = id}) = 1
            /\ \A h \in LiveOfKind(kind, k) : EntryCount(kind, k, handles[h].id) = 1

\* The step starts or continues an operation of some thread on holder k, or
\* creates the value of holder k.
Touches(k) ==
    \/ created[k] # created'[k]
    \/ \E t \in Threads : (src[t] # 0 /\ handles[src[t]].holder = k)
                             \/ (src'[t] # 0 /\ handles'[src'[t]].holder = k)
    \/ \E h \in Slots : handles[h] # handles'[h] /\ handles'[h].holder = k

\* The id counter of holder k.
Counter(k) == IF prog = "lib" THEN next_id[k] ELSE id_counter[k]

\* C19: a step that is no operation on holder k leaves everything kept for k
\* unchanged (value, counts, both sub-maps, id counter, lock), and the step that
\* creates the value of holder k gives its first handle id 0, whatever the
\* counters of the other holders have reached.
C19_HoldersIndependent ==
    [][\A k \in Holders :
         /\ ~Touches(k) => HolderState(k)' = HolderState(k)
         /\ (~created[k] /\ created'[k]) =>
               \E h \in Slots :
                   /\ handles[h].st = "unused" /\ handles'[h].st = "live"
                   /\ handles'[h].holder = k /\ handles'[h].id = 0
                   /\ SubMapIds("strong", k)' = {0}
                   /\ \A j \in Holders \ {k} : HolderState(j)' = HolderState(j)]_vars

\* Two values exist: the first holder has handed out ids 0 and 1 and has both
\* handles on record, and the first handle of the second value has id 0.
C19_Witness ==
    /\ handles[1].holder = 1 /\ handles[2].holder = 1 /\ handles[3].holder = 2
    /\ handles[3].id = 0 /\ handles[3].st = "live"
    /\ handles[2].kind = "weak" /\ handles[2].id = 1 /\ handles[2].st = "live"
    /\ Counter(1) = 2
    /\ WeakSubMapIds(1) = {1} /\ StrongSubMapIds(1) = {0} /\ StrongSubMapIds(2) = {0}

\* The entries of both sub-maps of holder k, as pairs of kind and id.
Entries(k) ==
    {<<"strong", id>> : id \in DOMAIN strongs[k]} \cup {<<"weak", id>> : id \in DOMAIN weaks[k]}

EntriesAfter(k) ==
    {<<"strong", id>> : id \in DOMAIN strongs'[k]} \cup
        {<<"weak", id>> : id \in DOMAIN weaks'[k]}

\* C20: the Origin on record for a handle is the same after every step as
\* before it, as long as the handle is alive; origin() hands back that chain;
\* and a step changes the sub-maps of a holder by at most the one entry it
\* inserts or removes, leaving every other entry as it was.
C20_OriginNeverChanges ==
    [][/\ \A h \in Slots : (handles[h].st = "live" /\ handles'[h].st = "live")
                              => RecordedOrigin(h)' = RecordedOrigin(h)
       /\ \A t \in Threads : (pc[t] = "origin_cs" /\ pc'[t] = "origin_ret")
                              => out'[t].origin = RecordedOrigin(src[t])
       /\ \A k \in Holders :
            /\ Cardinality((Entries(k) \ EntriesAfter(k)) \cup
                              (EntriesAfter(k) \ Entries(k))) <= 1
            /\ \A id \in DOMAIN strongs[k] \cap DOMAIN strongs'[k] :
                  strongs'[k][id] = strongs[k][id]
            /\ \A id \in DOMAIN weaks[k] \cap DOMAIN weaks'[k] :
                  weaks'[k][id] = weaks[k][id]]_vars

\* ---------------------------------------------------------------- C21..C24

\* C21: for every strong handle a thread can call them on, strong_count is
\* the number of entries of the strong sub-map and weak_count the number of
\* entries of the weak sub-map, at every instant.
C21_CountsEqualMapSizes ==
    \A s \in Slots : (prog = "lib" /\ Usable(s) /\ handles[s].kind = "strong") =>
        /\ Snarc_strong_count(s) = Cardinality(DOMAIN strongs[HolderOf(s)])
        /\ Snarc_weak_count(s) = Cardinality(DOMAIN weaks[HolderOf(s)])

NoIdFailures == {"No ID on alive weak reference in drop",
                 "Succesfully upgraded a weak reference, but it has no ID"}

\* C22: a weak handle without id is made only by the clone of a weak handle
\* whose value is destroyed at that moment, and the value of such a handle stays
\* destroyed; an upgrade of a handle without id returns None with the value
\* gone; and neither "no id" failure of clone and drop is ever reached.
C22_NoIdOnlyAfterValueGone ==
    [][/\ \A h \in Slots, k \in Holders :
            (handles'[h].kind = "weak" /\ handles'[h].id = NoId /\ handles'[h].holder = k) =>
                /\ ~ValuePresent(k) /\ ~ValuePresent(k)'
                /\ handles[h].st = "unused" =>
                      \E w \in Slots : /\ w = handles'[h].from
                                       /\ handles[w].kind = "weak" /\ handles[w].holder = k
       /\ \A t \in Threads, k \in Holders :
            (UpgradeBegins(t) /\ handles[src'[t]].id = NoId /\ handles[src'[t]].holder = k)
               => (pc'[t] = "upgrade_none" /\ ~ValuePresent(k))
       /\ panic' \notin NoIdFailures]_vars

\* The upgrade of a weak handle without id is about to return None while a
\* second thread is dropping the weak handle it was cloned from.
C22_Witness ==
    \E t, u \in Threads :
        /\ pc[t] = "upgrade_none" /\ handles[src[t]].id = NoId
        /\ handles[src[t]].from = src[u] /\ pc[u] = "wdrop_weak"
        /\ panic = "none"

\* C23: every entry of either sub-map is stored under the id its Origin
\* carries, every key is below the holder's id counter, and no key is in both
\* sub-maps.
C23_EntriesWellFormed ==
    \A k \in Holders : created[k] =>
        /\ prog = "lib" =>
              /\ \A id \in DOMAIN strongs[k] : Head(strongs[k][id]).id = id
              /\ \A id \in DOMAIN weaks[k] : Head(weaks[k][id]).id = id
        /\ \A id \in StrongSubMapIds(k) \cup WeakSubMapIds(k) : id < Counter(k)
        /\ StrongSubMapIds(k) \cap WeakSubMapIds(k) = {}

\* C24: along every Origin on record in lib.rs the ids strictly decrease from
\* the handle's own link to the New link, and the New link has id 0.
C24_IdsDecreaseAlongChain ==
    \A h \in Slots : (prog = "lib" /\ Made(h) /\ RecordedOrigin(h) # <<>>) =>
        LET o == RecordedOrigin(h) IN
        /\ o[1].id = handles[h].id
        /\ \A i \in 1..(Len(o) - 1) : o[i].id > o[i + 1].id
        /\ o[Len(o)].id = 0

\* A handle with id 2 made directly from the original handle, after id 1 went
\* to another handle: a chain of two links with ids 2 and 0.
C24_Witness ==
    \E h \in Slots :
        /\ prog = "lib" /\ Made(h) /\ Len(RecordedOrigin(h)) = 2
        /\ RecordedOrigin(h)[1].id = 2 /\ RecordedOrigin(h)[2].id = 0
====
